---- MODULE Spec2Model ----
(***************************************************************************)
(* Integrity supervision of Docker containers (src/dockerize.py,           *)
(* src/T2/fire.py, src/dockerizev8.py): the fingerprint engine             *)
(* compute_container_hash, the recovery restore_container_from_snapshot,   *)
(* the two supervisor loops continuous_integrity_check and                 *)
(* minimal_integrity_check, and the coordinator                            *)
(* run_integrity_check_menu / run_integrity_check_for_all; the privilege   *)
(* bootstrap ensure_docker_installed / fix_docker_group; the platform      *)
(* resolver detect_os / map_os_to_docker_image.                            *)
(*                                                                         *)
(* Supervision, the bootstrap and the resolver are followed by separate    *)
(* specifications (Spec, BootSpec, PlatformSpec, ResolveSpec) over one     *)
(* set of variables; each holds the variables of the others fixed.         *)
(*                                                                         *)
(* The container runtime is the environment: each docker command is a      *)
(* nondeterministic choice among the outcomes the command can have.        *)
(***************************************************************************)
EXTENDS Integers, Sequences, FiniteSets, TLC

(***************************************************************************)
(* Bounds                                                                  *)
(***************************************************************************)
\* number of distinct filesystem states a unit can be in
MaxFs == 2
\* number of entries the user may type in an index list
MaxTokens == 2
\* number of menu operations (calls of check_all_dependencies) followed
MaxCalls == 3
\* number of times os.execvp may replace the process before the model stops
\* counting
MaxReexec == 2

(***************************************************************************)
(* Strings are sequences of one-character strings, so that startswith,     *)
(* `in`, lower, strip and split are computed as Python computes them.      *)
(***************************************************************************)
\* s.startswith(p)
StartsWith(s, p) == Len(p) <= Len(s) /\ SubSeq(s, 1, Len(p)) = p

\* sub in s
In(sub, s) ==
  \E k \in 0..(Len(s) - Len(sub)) : SubSeq(s, k + 1, k + Len(sub)) = sub

UpperCase ==
  <<"A", "B", "C", "D", "E", "F", "G", "H", "I", "J", "K", "L", "M",
    "N", "O", "P", "Q", "R", "S", "T", "U", "V", "W", "X", "Y", "Z">>

LowerCase ==
  <<"a", "b", "c", "d", "e", "f", "g", "h", "i", "j", "k", "l", "m",
    "n", "o", "p", "q", "r", "s", "t", "u", "v", "w", "x", "y", "z">>

LowerChar(c) ==
  IF \E k \in 1..Len(UpperCase) : UpperCase[k] = c
  THEN LowerCase[CHOOSE k \in 1..Len(UpperCase) : UpperCase[k] = c]
  ELSE c

\* s.lower()
Lower(s) == [k \in 1..Len(s) |-> LowerChar(s[k])]

(***************************************************************************)
(* The runtime: units and their exports                                    *)
(***************************************************************************)
\* every unit of the host, in the order `docker ps` lists them
AllUnits == <<"web1", "db1", "waf1">>

Names == {AllUnits[k] : k \in 1..Len(AllUnits)}

\* a unit that does not exist
Absent == 0

FsStates == 1..MaxFs

\* the filesystem every snapshot artifact restores
SnapshotFs == 1

\* last chunk of a complete export (the tar end-of-archive block)
EndChunk == MaxFs + 1

\* `docker export` of a live unit, read to the end, as 4096-byte chunks
ExportStream(fs) == <<fs, EndChunk>>

\* What one `docker export <name>` can do.  spawned: Popen returned a
\* process; stream: the chunks it wrote before it ended; exit: its status,
\* which the caller never reads.
ExportBehaviours(unit) ==
  {[spawned |-> FALSE, stream |-> <<>>, exit |-> 1, how |-> "nospawn"]}
  \cup
  (IF unit = Absent
   THEN {[spawned |-> TRUE, stream |-> <<>>, exit |-> 1, how |-> "absent"]}
   ELSE {[spawned |-> TRUE, stream |-> ExportStream(unit), exit |-> 0,
          how |-> "complete"]}
        \cup
        {[spawned |-> TRUE, stream |-> SubSeq(ExportStream(unit), 1, n),
          exit |-> 1, how |-> "truncated"] :
            n \in 0..(Len(ExportStream(unit)) - 1)})

(***************************************************************************)
(* compute_container_hash                                                  *)
(***************************************************************************)
\* the value `return None` gives; every digest is greater
None == 0

\* state of a fresh hashlib.sha256()
HashInit == 1

HashBase == MaxFs + 2

\* hasher.update(chunk) for each chunk read, then hexdigest(): injective on
\* the streams of the model, as SHA-256 is taken to be
RECURSIVE Hash(_, _)
Hash(h, stream) ==
  IF stream = <<>> THEN h
  ELSE Hash(h * HashBase + Head(stream), Tail(stream))

\* Popen raising is the only way into the except branch; an export that
\* ends with an error still gives the digest of what it wrote
compute_container_hash(e) ==
  IF ~e.spawned THEN None ELSE Hash(HashInit, e.stream)

\* `if not baseline_hash`
Falsy(h) == h = None

(***************************************************************************)
(* State                                                                   *)
(***************************************************************************)
VARIABLES
  units,      \* runtime: unit name -> filesystem state, or Absent
  cstate,     \* where the menu / coordinator is
  running,    \* running_containers, as listed at setup
  selected,   \* the units to supervise, in the order they are taken
  single,     \* TRUE for menu option 1 (one named unit)
  answer,     \* choice, between the prompt and the selection it yields
  cpos,       \* index in selected of the loop the coordinator is in
  snap,       \* per loop, while it runs: a snapshot path was entered
  pc,         \* per loop: idle, steady, unmonitorable, interrupted, crashed,
              \* hung
  baseline,   \* per loop: baseline_hash
  bhow,       \* per loop: how the export behind baseline_hash ended
  ev          \* per loop: what its last step did and reported

vars == <<units, cstate, running, selected, single, answer, cpos, snap, pc,
          baseline, bhow, ev>>

\* The process and its environment, as ensure_docker_installed sees them
VARIABLES
  script,     \* which of the scripts of the repository is run
  sysname,    \* platform.system().lower()
  sentinel,   \* "CCDC_DOCKER_GROUP_FIX" in os.environ
  bpc,        \* where the process is: menu, entry, platform, install, fix,
              \* exec, ready, exit1, traceback, sgfailed
  reexecs,    \* how often os.execvp("sg", ...) has replaced the process
  calls,      \* how often ensure_docker_installed has been called
  last        \* what the current call of ensure_docker_installed did

bvars == <<script, sysname, sentinel, bpc, reexecs, calls, last>>

\* The host as detect_os sees it, and one call each of the resolver and of
\* the restore
VARIABLES
  host,       \* platform.system(), platform.release(), /etc/os-release
  os_name,    \* first argument of map_os_to_docker_image
  version,    \* second argument of map_os_to_docker_image
  image,      \* what map_os_to_docker_image returned
  rargs,      \* the arguments of restore_container_from_snapshot
  launched,   \* the `docker run` command line the restore issued
  ppc         \* start, mapped

pvars == <<host, os_name, version, image, rargs, launched, ppc>>

\* values of platform.system().lower()
Linux == <<"l", "i", "n", "u", "x">>
FreeBSD == <<"f", "r", "e", "e", "b", "s", "d">>
Windows == <<"w", "i", "n", "d", "o", "w", "s">>
Darwin == <<"d", "a", "r", "w", "i", "n">>
Minix == <<"m", "i", "n", "i", "x">>

Sysnames == {Linux, FreeBSD, Windows, Darwin, Minix}

\* nothing done yet in this call: no probe, no installation, no group or
\* service change, no exec
NoCall ==
  [probe1 |-> "skip", install |-> "skip", probe2 |-> "skip",
   groupadd |-> "skip", usermod |-> "skip", service |-> "skip",
   exec |-> "skip"]

\* the scripts whose ensure_docker_installed differ: src/dockerize.py,
\* src/T2/fire.py and src/dockerizev8.py
Scripts == {"dockerize", "fire", "v8"}

\* ensure_docker_installed has returned on a Linux host where Docker was
\* installed and accessible: the state in which supervision runs
BootReady ==
  /\ script = "dockerize"
  /\ sysname = Linux
  /\ sentinel = FALSE
  /\ bpc = "ready"
  /\ reexecs = 0
  /\ calls = 1
  /\ last = [NoCall EXCEPT !.probe1 = "ok"]

Loops == 1..Len(selected)

\* What the last step of a loop did: the message it printed (kind), the
\* hash it computed and how that export ended, what became of the three
\* recovery commands, and a bit n that every step of the loop flips.
NoEvent ==
  [kind |-> "idle", cur |-> None, how |-> "none",
   rm |-> "skip", load |-> "skip", run |-> "skip", n |-> 0]

Event(i, k, cur, how, rm, load, run) ==
  [kind |-> k, cur |-> cur, how |-> how,
   rm |-> rm, load |-> load, run |-> run, n |-> 1 - ev[i].n]

\* The loop function is left: its local baseline_hash is gone, and the
\* coordinator's snapshot_tar is overwritten for the next unit.  What stays
\* of the loop is how it ended (pc) and its last message.
Left(i, k) ==
  /\ ev' = [ev EXCEPT ![i] = [NoEvent EXCEPT !.kind = k]]
  /\ baseline' = [baseline EXCEPT ![i] = None]
  /\ bhow' = [bhow EXCEPT ![i] = "none"]
  /\ snap' = [snap EXCEPT ![i] = FALSE]

\* no answer to the selection prompt is pending
NoAnswer == [all |-> FALSE, toks |-> <<>>]

\* the integrity menu is shown and no loop has been set up
SupervisionIdle ==
  /\ units = [n \in Names |-> SnapshotFs]
  /\ cstate = "menu"
  /\ running = <<>>
  /\ selected = <<>>
  /\ single = FALSE
  /\ answer = NoAnswer
  /\ cpos = 1
  /\ snap = <<>>
  /\ pc = <<>>
  /\ baseline = <<>>
  /\ bhow = <<>>
  /\ ev = <<>>

(***************************************************************************)
(* The coordinator: run_integrity_check_menu, run_integrity_check_for_all  *)
(***************************************************************************)
\* output.split() of `docker ps --format {{.Names}}`
docker_ps(u) == SelectSeq(AllUnits, LAMBDA n : u[n] # Absent)

\* One comma-separated entry of the answer, stripped and non-blank: int(i)
\* either gives a number or raises ValueError
Tokens ==
  {[num |-> TRUE, val |-> v] : v \in 0..(Len(AllUnits) + 1)}
  \cup {[num |-> FALSE, val |-> 0]}

RECURSIVE TokenSeqs(_)
TokenSeqs(n) ==
  IF n = 0 THEN {<<>>}
  ELSE TokenSeqs(n - 1)
       \cup {Append(s, t) : s \in {q \in TokenSeqs(n - 1) : Len(q) = n - 1},
                              t \in Tokens}

\* the answers to "Enter 'all' ... or comma-separated indexes"
Choices ==
  {[all |-> TRUE, toks |-> <<>>]}
  \cup {[all |-> FALSE, toks |-> s] : s \in TokenSeqs(MaxTokens)}

\* the loop over indexes: selected.append(running_containers[idx - 1])
RECURSIVE PickIndexes(_, _)
PickIndexes(toks, list) ==
  IF toks = <<>> THEN <<>>
  ELSE LET t == Head(toks)
           rest == PickIndexes(Tail(toks), list)
       IN IF t.num /\ 1 <= t.val /\ t.val <= Len(list)
          THEN <<list[t.val]>> \o rest
          ELSE rest

\* a selection that falls back to every unit when no entry is valid
Select_AllWhenNoneValid(choice, list) ==
  IF choice.all \/ PickIndexes(choice.toks, list) = <<>>
  THEN list
  ELSE PickIndexes(choice.toks, list)

Select(choice, list) ==
  IF choice.all THEN list ELSE PickIndexes(choice.toks, list)

\* the per-loop state before any loop was entered
Fresh(sel, v) == [i \in 1..Len(sel) |-> v]

Enter(sel, isSingle, list) ==
  /\ running' = list
  /\ selected' = sel
  /\ single' = isSingle
  /\ answer' = NoAnswer
  /\ cpos' = 1
  /\ cstate' = IF sel = <<>> THEN "returned" ELSE "supervising"
  /\ snap' = Fresh(sel, FALSE)
  /\ pc' = Fresh(sel, "idle")
  /\ baseline' = Fresh(sel, None)
  /\ bhow' = Fresh(sel, "none")
  /\ ev' = Fresh(sel, NoEvent)
  /\ UNCHANGED units

\* menu option 1: the user names one container
MenuSingle ==
  /\ cstate = "menu"
  /\ \E name \in Names : Enter(<<name>>, TRUE, <<>>)

\* menu option 2: list the running containers; with none the function
\* returns, otherwise the list is printed and the user's choice is read
MenuAll ==
  /\ cstate = "menu"
  /\ LET list == docker_ps(units) IN
     IF list = <<>>
     THEN Enter(<<>>, FALSE, list)
     ELSE /\ running' = list
          /\ cstate' = "asked"
          /\ \E choice \in Choices : answer' = choice
          /\ UNCHANGED <<units, selected, single, cpos, snap, pc, baseline,
                         bhow, ev>>

\* the choice is turned into selected; with nothing selected the function
\* returns, otherwise the for loop over selected begins
SelectContainers ==
  /\ cstate = "asked"
  /\ Enter(Select(answer, running), FALSE, running)

\* `docker ps` itself fails: except subprocess.CalledProcessError
MenuAllListFails ==
  /\ cstate = "menu"
  /\ cstate' = "list_error"
  /\ UNCHANGED <<units, running, selected, single, answer, cpos, snap, pc,
                 baseline, bhow, ev>>

(***************************************************************************)
(* restore_container_from_snapshot                                         *)
(***************************************************************************)
\* a restore whose `docker run` is attempted although the load raised
RestoreOutcomes_RunAfterFailedLoad ==
  {[load |-> "fail", run |-> "skip"],
   [load |-> "fail", run |-> "ok"],
   [load |-> "ok", run |-> "fail"],
   [load |-> "ok", run |-> "ok"]}

\* what `docker load` and `docker run` can do; the run is not attempted
\* when the load raised
RestoreOutcomes ==
  {[load |-> "fail", run |-> "skip"],
   [load |-> "ok", run |-> "fail"],
   [load |-> "ok", run |-> "ok"]}

\* The runtime after the call: a unit named container_name exists, with the
\* snapshot's filesystem, exactly when both commands succeeded: units holds
\* the running units, and a `docker run -d` that fails runs nothing.  Either
\* CalledProcessError is caught and printed: the caller sees no difference.
restore_container_from_snapshot(u, container_name, o) ==
  IF o.load = "ok" /\ o.run = "ok"
  THEN [u EXCEPT ![container_name] = SnapshotFs]
  ELSE u

(***************************************************************************)
(* The supervisor loops                                                    *)
(***************************************************************************)
\* the loop function returns: the for loop of the coordinator takes the
\* next selected unit, or the menu function returns after the last one
Advance(i) ==
  /\ cpos' = i + 1
  /\ cstate' = IF i = Len(selected) THEN "returned" ELSE "supervising"

\* an exception leaves the loop function: option 2 catches
\* CalledProcessError around the whole for loop, option 1 does not
Propagate ==
  /\ cstate' = IF single THEN "died" ELSE "list_error"
  /\ UNCHANGED cpos

\* a loop function without `if not baseline_hash: return`: the while loop
\* is entered whatever the baseline is
Baselining_NoCheck(i) ==
  /\ cstate = "supervising"
  /\ cpos = i
  /\ pc[i] = "idle"
  /\ \E s \in BOOLEAN, e \in ExportBehaviours(units[selected[i]]) :
       LET baseline_hash == compute_container_hash(e) IN
       /\ snap' = [snap EXCEPT ![i] = s]
       /\ pc' = [pc EXCEPT ![i] = "steady"]
       /\ baseline' = [baseline EXCEPT ![i] = baseline_hash]
       /\ bhow' = [bhow EXCEPT ![i] = e.how]
       /\ ev' = [ev EXCEPT ![i] =
            Event(i, "baseline", baseline_hash, e.how,
                  "skip", "skip", "skip")]
       /\ UNCHANGED <<cpos, cstate>>
  /\ UNCHANGED <<units, running, selected, single, answer>>

\* The coordinator asks for the snapshot path and calls the loop function,
\* which takes the baseline: continuous_integrity_check when a path was
\* entered, minimal_integrity_check when it was left blank.
Baselining(i) ==
  /\ cstate = "supervising"
  /\ cpos = i
  /\ pc[i] = "idle"
  /\ \E s \in BOOLEAN, e \in ExportBehaviours(units[selected[i]]) :
       LET baseline_hash == compute_container_hash(e) IN
       IF Falsy(baseline_hash)
       THEN /\ pc' = [pc EXCEPT ![i] = "unmonitorable"]
            /\ Left(i, "unmonitorable")
            /\ Advance(i)
       ELSE /\ snap' = [snap EXCEPT ![i] = s]
            /\ pc' = [pc EXCEPT ![i] = "steady"]
            /\ baseline' = [baseline EXCEPT ![i] = baseline_hash]
            /\ bhow' = [bhow EXCEPT ![i] = e.how]
            /\ ev' = [ev EXCEPT ![i] =
                 Event(i, "baseline", baseline_hash, e.how,
                       "skip", "skip", "skip")]
            /\ UNCHANGED <<cpos, cstate>>
  /\ UNCHANGED <<units, running, selected, single, answer>>

\* a tick that removes the unit although the hashes are equal
NoDrift_RemovesAnyway(i, current_hash, e) ==
  /\ ev' = [ev EXCEPT ![i] =
       Event(i, "nodrift", current_hash, e.how,
             "ok", "skip", "skip")]
  /\ units' = [units EXCEPT ![selected[i]] = Absent]
  /\ UNCHANGED <<cstate, cpos, pc, baseline, bhow>>

\* the tick found current_hash == baseline_hash
NoDrift(i, current_hash, e) ==
  /\ ev' = [ev EXCEPT ![i] =
       Event(i, "nodrift", current_hash, e.how,
             "skip", "skip", "skip")]
  /\ UNCHANGED <<units, cstate, cpos, pc, baseline, bhow>>

\* `docker rm -f` raised CalledProcessError inside the while loop
RemoveFails(i, current_hash, e) ==
  /\ pc' = [pc EXCEPT ![i] = "crashed"]
  /\ ev' = [ev EXCEPT ![i] =
       Event(i, "drift", current_hash, e.how, "fail", "skip", "skip")]
  /\ baseline' = [baseline EXCEPT ![i] = None]
  /\ bhow' = [bhow EXCEPT ![i] = "none"]
  /\ Propagate
  /\ UNCHANGED units

\* a recovery that loads first and takes the drifted unit away only once
\* the load succeeded
RemoveRestoreRebaseline_LoadFirst(i, current_hash, e) ==
  \E o \in RestoreOutcomes :
    LET name == selected[i]
        removed == IF o.load = "ok" THEN [units EXCEPT ![name] = Absent]
                                    ELSE units
        after == restore_container_from_snapshot(removed, name, o)
    IN \E e2 \in ExportBehaviours(after[name]) :
         /\ units' = after
         /\ baseline' = [baseline EXCEPT ![i] = compute_container_hash(e2)]
         /\ bhow' = [bhow EXCEPT ![i] = e2.how]
         /\ ev' = [ev EXCEPT ![i] =
              Event(i, "drift", current_hash, e.how, "ok", o.load, o.run)]
         /\ UNCHANGED <<cstate, cpos, pc>>

\* the unit is removed, the restore is attempted, and the baseline is
\* taken again whatever the restore did
RemoveRestoreRebaseline(i, current_hash, e) ==
  \E o \in RestoreOutcomes :
    LET name == selected[i]
        removed == [units EXCEPT ![name] = Absent]
        after == restore_container_from_snapshot(removed, name, o)
    IN \E e2 \in ExportBehaviours(after[name]) :
         /\ units' = after
         /\ baseline' = [baseline EXCEPT ![i] = compute_container_hash(e2)]
         /\ bhow' = [bhow EXCEPT ![i] = e2.how]
         /\ ev' = [ev EXCEPT ![i] =
              Event(i, "drift", current_hash, e.how, "ok", o.load, o.run)]
         /\ UNCHANGED <<cstate, cpos, pc>>

\* one iteration of the while loop of continuous_integrity_check
ContinuousTick(i) ==
  /\ cstate = "supervising"
  /\ cpos = i
  /\ pc[i] = "steady"
  /\ snap[i]
  /\ \E e \in ExportBehaviours(units[selected[i]]) :
       LET current_hash == compute_container_hash(e) IN
       IF current_hash # baseline[i]
       THEN \/ RemoveFails(i, current_hash, e)
            \/ RemoveRestoreRebaseline(i, current_hash, e)
       ELSE NoDrift(i, current_hash, e)
  /\ UNCHANGED <<running, selected, single, answer, snap>>

\* a detection-only tick that warns but forgets `baseline_hash = current_hash`
AdoptDrifted_KeepsBaseline(i, current_hash, e) ==
  /\ ev' = [ev EXCEPT ![i] =
       Event(i, "drift", current_hash, e.how, "skip", "skip", "skip")]
  /\ UNCHANGED <<units, cstate, cpos, pc, baseline, bhow>>

\* the tick of minimal_integrity_check found a different hash
AdoptDrifted(i, current_hash, e) ==
  /\ baseline' = [baseline EXCEPT ![i] = current_hash]
  /\ bhow' = [bhow EXCEPT ![i] = e.how]
  /\ ev' = [ev EXCEPT ![i] =
       Event(i, "drift", current_hash, e.how, "skip", "skip", "skip")]
  /\ UNCHANGED <<units, cstate, cpos, pc>>

\* one iteration of the while loop of minimal_integrity_check
MinimalTick(i) ==
  /\ cstate = "supervising"
  /\ cpos = i
  /\ pc[i] = "steady"
  /\ ~snap[i]
  /\ \E e \in ExportBehaviours(units[selected[i]]) :
       LET current_hash == compute_container_hash(e) IN
       IF current_hash # baseline[i]
       THEN AdoptDrifted(i, current_hash, e)
       ELSE NoDrift(i, current_hash, e)
  /\ UNCHANGED <<running, selected, single, answer, snap>>

\* a handler that prints the message inside the while loop and goes on
\* with the next iteration
KeyboardInterrupt_Swallowed(i) ==
  /\ cstate = "supervising"
  /\ cpos = i
  /\ pc[i] = "steady"
  /\ ev' = [ev EXCEPT ![i] =
       Event(i, "interrupted", None, "none", "skip", "skip", "skip")]
  /\ UNCHANGED <<units, running, selected, single, answer, cstate, cpos,
                 snap, pc, baseline, bhow>>

\* Ctrl-C while the loop sleeps or ticks: except KeyboardInterrupt prints
\* and the loop function returns normally
KeyboardInterrupt(i) ==
  /\ cstate = "supervising"
  /\ cpos = i
  /\ \/ pc[i] = "steady"
     \/ pc[i] = "hung" /\ ev[i].how = "tick"
  /\ pc' = [pc EXCEPT ![i] = "interrupted"]
  /\ Left(i, "interrupted")
  /\ Advance(i)
  /\ UNCHANGED <<units, running, selected, single, answer>>

\* Ctrl-C before the while loop is entered (at the snapshot prompt or
\* while the baseline is computed): no handler is in scope, the
\* KeyboardInterrupt leaves the menu function and the process ends
KeyboardInterruptUncaught(i) ==
  /\ cstate = "supervising"
  /\ cpos = i
  /\ \/ pc[i] = "idle"
     \/ pc[i] = "hung" /\ ev[i].how = "baseline"
  /\ cstate' = "died"
  /\ UNCHANGED <<units, running, selected, single, answer, cpos, snap, pc,
                 baseline, bhow, ev>>

\* what the runtime can be left as when a call of a tick hangs: untouched
\* (the export or `docker rm -f` hangs), without the unit (the load or the
\* run hangs) or with whatever the restore did (the export of the new
\* baseline hangs)
HangStates(i) ==
  LET name == selected[i]
      removed == [units EXCEPT ![name] = Absent]
      drifts == \E e \in ExportBehaviours(units[name]) :
                  compute_container_hash(e) # baseline[i]
  IN IF pc[i] = "steady" /\ snap[i] /\ drifts
     THEN {units, removed}
          \cup {restore_container_from_snapshot(removed, name, o) :
                  o \in RestoreOutcomes}
     ELSE {units}

\* A docker command of the loop never returns: proc.stdout.read and
\* check_call are given no timeout, so the loop function stays in the call.
\* Its locals are not read again.
CallHangs(i) ==
  /\ cstate = "supervising"
  /\ cpos = i
  /\ pc[i] \in {"idle", "steady"}
  /\ pc' = [pc EXCEPT ![i] = "hung"]
  /\ ev' = [ev EXCEPT ![i] =
       [NoEvent EXCEPT !.kind = "hung",
                       !.how = IF pc[i] = "idle" THEN "baseline" ELSE "tick"]]
  /\ baseline' = [baseline EXCEPT ![i] = None]
  /\ bhow' = [bhow EXCEPT ![i] = "none"]
  /\ snap' = [snap EXCEPT ![i] = FALSE]
  /\ units' \in HangStates(i)
  /\ UNCHANGED <<cstate, cpos, running, selected, single, answer>>

(***************************************************************************)
(* The environment                                                         *)
(***************************************************************************)
\* Only changes that some loop can still observe are taken: any unit may
\* go away before the containers are listed, and afterwards the unit of the
\* loop the coordinator is in (or is about to enter) may change or go away.
\* The units of later loops change once the coordinator reaches them.
Observable(n) ==
  \/ cstate = "menu"
  \/ cstate = "supervising" /\ selected[cpos] = n /\ pc[cpos] # "hung"

\* something writes to the filesystem of a live unit
Mutate(n) ==
  /\ cstate = "supervising" /\ selected[cpos] = n /\ pc[cpos] # "hung"
  /\ units[n] # Absent
  /\ \E fs \in FsStates \ {units[n]} : units' = [units EXCEPT ![n] = fs]
  /\ UNCHANGED <<cstate, running, selected, single, answer, cpos, snap, pc,
                 baseline, bhow, ev>>

\* somebody else removes a unit
ExternalRemove(n) ==
  /\ Observable(n)
  /\ units[n] # Absent
  /\ units' = [units EXCEPT ![n] = Absent]
  /\ UNCHANGED <<cstate, running, selected, single, answer, cpos, snap, pc,
                 baseline, bhow, ev>>

(***************************************************************************)
(* The privilege bootstrap: ensure_docker_installed, fix_docker_group      *)
(***************************************************************************)
\* can_run_docker(): `docker ps` succeeds or does not
Probes == {"ok", "fail"}

\* attempt_install_docker_linux(): no package manager found, a command of
\* the installation raised CalledProcessError, or all commands succeeded
InstallOutcomes == {"nopm", "fail", "ok"}

\* os.execvp("sg", cmd): it raises OSError (no sg on PATH), or sg replaces
\* the process and then either cannot run the command line or runs the
\* script again
ExecOutcomes == {"oserror", "sgfail", "ok"}

\* the user picks a menu operation, which calls check_all_dependencies
CallEnsure ==
  /\ bpc = "menu"
  /\ calls < MaxCalls
  /\ bpc' = "entry"
  /\ calls' = calls + 1
  /\ last' = NoCall
  /\ UNCHANGED <<script, sysname, sentinel, reexecs>>
  /\ UNCHANGED <<vars, pvars>>

\* What the branch "Docker is installed and accessible" does before it
\* returns.  src/T2/fire.py creates the docker group when getent does not
\* find it, runs usermod unless the user is in the group, and enables and
\* starts the service when systemctl is found; a failure is printed only.
\* The other scripts return at once.
ReadyChanges(s) ==
  IF s = "fire"
  THEN [groupadd : {"skip", "ok", "fail"},
        usermod : {"skip", "ok", "fail"},
        service : {"skip", "ok", "fail"}]
  ELSE {[groupadd |-> "skip", usermod |-> "skip", service |-> "skip"]}

\* an entry that does not look at the sentinel
EnsureEntry_NoSentinelCheck ==
  /\ bpc = "entry"
  /\ \E docker_path \in BOOLEAN, p \in Probes, c \in ReadyChanges(script) :
       IF docker_path /\ p = "ok"
       THEN /\ last' = [last EXCEPT !.probe1 = p,
                                    !.groupadd = c.groupadd,
                                    !.usermod = c.usermod,
                                    !.service = c.service]
            /\ bpc' = "ready"
       ELSE /\ last' = [last EXCEPT
                 !.probe1 = IF docker_path THEN p ELSE "skip"]
            /\ bpc' = "platform"
  /\ UNCHANGED <<script, sysname, sentinel, reexecs, calls>>
  /\ UNCHANGED <<vars, pvars>>

\* ensure_docker_installed up to the platform dispatch: with the sentinel
\* set, one probe decides between return and sys.exit(1); without it,
\* shutil.which("docker") and the probe decide between return and going on
EnsureEntry ==
  /\ bpc = "entry"
  /\ IF sentinel
     THEN \E p \in Probes :
            /\ last' = [last EXCEPT !.probe1 = p]
            /\ bpc' = IF p = "ok" THEN "ready" ELSE "exit1"
     ELSE \E docker_path \in BOOLEAN, p \in Probes,
             c \in ReadyChanges(script) :
            IF docker_path /\ p = "ok"
            THEN /\ last' = [last EXCEPT !.probe1 = p,
                                         !.groupadd = c.groupadd,
                                         !.usermod = c.usermod,
                                         !.service = c.service]
                 /\ bpc' = "ready"
            ELSE /\ last' = [last EXCEPT
                      !.probe1 = IF docker_path THEN p ELSE "skip"]
                 /\ bpc' = "platform"
  /\ UNCHANGED <<script, sysname, sentinel, reexecs, calls>>
  /\ UNCHANGED <<vars, pvars>>

\* the branches of the dispatch that call an installer: Linux in every
\* script, and in src/dockerizev8.py also a name with "bsd" or "nix" in it
HasInstaller(s, name) ==
  \/ StartsWith(name, Linux)
  \/ s = "v8" /\ (In(<<"b", "s", "d">>, name) \/ In(<<"n", "i", "x">>, name))

\* a dispatch that waits on a platform without auto-install instead of
\* calling sys.exit(1)
EnsurePlatform_Waits ==
  /\ bpc = "platform"
  /\ bpc' = IF HasInstaller(script, sysname) THEN "install" ELSE "platform"
  /\ UNCHANGED <<script, sysname, sentinel, reexecs, calls, last>>
  /\ UNCHANGED <<vars, pvars>>

\* the dispatch on platform.system().lower(): a branch with an installer
\* goes on, every other branch prints and calls sys.exit(1)
EnsurePlatform ==
  /\ bpc = "platform"
  /\ bpc' = IF HasInstaller(script, sysname) THEN "install" ELSE "exit1"
  /\ UNCHANGED <<script, sysname, sentinel, reexecs, calls, last>>
  /\ UNCHANGED <<vars, pvars>>

\* a branch that goes on to fix the group although the installer
\* returned False
EnsureInstall_FixAnyway ==
  /\ bpc = "install"
  /\ \E installed \in InstallOutcomes, p \in Probes :
       IF installed # "ok"
       THEN /\ last' = [last EXCEPT !.install = "fail"]
            /\ bpc' = "fix"
       ELSE /\ last' = [last EXCEPT !.install = "ok", !.probe2 = p]
            /\ bpc' = IF p = "ok" THEN "ready" ELSE "fix"
  /\ UNCHANGED <<script, sysname, sentinel, reexecs, calls>>
  /\ UNCHANGED <<vars, pvars>>

\* a branch with an installer: attempt_install_docker_linux (or _bsd,
\* _nix), sys.exit(1) when it returns False, else the second probe
EnsureInstall ==
  /\ bpc = "install"
  /\ \E installed \in InstallOutcomes, p \in Probes :
       IF installed # "ok"
       THEN /\ last' = [last EXCEPT !.install = "fail"]
            /\ bpc' = "exit1"
       ELSE /\ last' = [last EXCEPT !.install = "ok", !.probe2 = p]
            /\ bpc' = IF p = "ok" THEN "ready" ELSE "fix"
  /\ UNCHANGED <<script, sysname, sentinel, reexecs, calls>>
  /\ UNCHANGED <<vars, pvars>>

\* usermod and systemctl before the re-exec: fix_docker_group runs them,
\* reexec_with_docker_group of src/T2/fire.py does not
GroupFix(s) == IF s = "fire" THEN {"skip"} ELSE Probes

\* what becomes of the process at os.execvp
Reexec(x) ==
  /\ bpc' = CASE x = "oserror" -> "traceback"
              [] x = "sgfail" -> "sgfailed"
              [] x = "ok" -> "menu"
  /\ reexecs' = IF x = "oserror" THEN reexecs ELSE reexecs + 1

\* an exec that starts the script with an environment that lacks the
\* variable: nothing inherited, nothing exported
execvp_DropsEnvironment ==
  /\ bpc = "exec"
  /\ reexecs < MaxReexec
  /\ \E x \in ExecOutcomes :
       /\ last' = [last EXCEPT !.exec = x]
       /\ sentinel' = IF x = "ok" THEN FALSE ELSE sentinel
       /\ Reexec(x)
  /\ UNCHANGED <<script, sysname, calls>>
  /\ UNCHANGED <<vars, pvars>>

\* os.execvp("sg", ["sg", "docker", "-c", command_line]): the script that
\* is started inherits os.environ, and command_line exports the variable
\* once more before it execs the interpreter
execvp ==
  /\ bpc = "exec"
  /\ reexecs < MaxReexec
  /\ \E x \in ExecOutcomes :
       /\ last' = [last EXCEPT !.exec = x]
       /\ sentinel' = IF x = "ok" THEN TRUE ELSE sentinel
       /\ Reexec(x)
  /\ UNCHANGED <<script, sysname, calls>>
  /\ UNCHANGED <<vars, pvars>>

\* a fix that leaves os.environ alone and relies on the export in the
\* command line
fix_docker_group_NoEnviron ==
  /\ bpc = "fix"
  /\ \E um \in GroupFix(script), sv \in GroupFix(script) :
       last' = [last EXCEPT !.usermod = um, !.service = sv]
  /\ bpc' = "exec"
  /\ UNCHANGED <<script, sysname, sentinel, reexecs, calls>>
  /\ UNCHANGED <<vars, pvars>>

\* fix_docker_group up to the exec: usermod and systemctl may fail with a
\* warning only, then the variable is put in os.environ
fix_docker_group ==
  /\ bpc = "fix"
  /\ \E um \in GroupFix(script), sv \in GroupFix(script) :
       last' = [last EXCEPT !.usermod = um, !.service = sv]
  /\ sentinel' = TRUE
  /\ bpc' = "exec"
  /\ UNCHANGED <<script, sysname, reexecs, calls>>
  /\ UNCHANGED <<vars, pvars>>

\* ensure_docker_installed returned: the operation runs and the menu is
\* shown again
BackToMenu ==
  /\ bpc = "ready"
  /\ bpc' = "menu"
  /\ UNCHANGED <<script, sysname, sentinel, reexecs, calls, last>>
  /\ UNCHANGED <<vars, pvars>>

(***************************************************************************)
(* The platform resolver: detect_os, map_os_to_docker_image                *)
(***************************************************************************)
\* the dictionaries, in insertion order, which is the order Python
\* iterates them in
linux_map ==
  <<[distro |-> <<"c", "e", "n", "t", "o", "s">>,
     ver_map |->
       <<[k |-> <<"6">>, img |-> "centos:6"],
         [k |-> <<"7">>, img |-> "centos:7"],
         [k |-> <<"8">>, img |-> "centos:8"],
         [k |-> <<"9">>, img |-> "centos:stream9"],
         [k |-> <<>>, img |-> "ubuntu:latest"]>>],
    [distro |-> <<"u", "b", "u", "n", "t", "u">>,
     ver_map |->
       <<[k |-> <<"1", "4">>, img |-> "ubuntu:14.04"],
         [k |-> <<"1", "6">>, img |-> "ubuntu:16.04"],
         [k |-> <<"1", "8">>, img |-> "ubuntu:18.04"],
         [k |-> <<"2", "0">>, img |-> "ubuntu:20.04"],
         [k |-> <<"2", "2">>, img |-> "ubuntu:22.04"]>>],
    [distro |-> <<"d", "e", "b", "i", "a", "n">>,
     ver_map |->
       <<[k |-> <<"7">>, img |-> "debian:7"],
         [k |-> <<"8">>, img |-> "debian:8"],
         [k |-> <<"9">>, img |-> "debian:9"],
         [k |-> <<"1", "0">>, img |-> "debian:10"],
         [k |-> <<"1", "1">>, img |-> "debian:11"],
         [k |-> <<"1", "2">>, img |-> "debian:12"]>>],
    [distro |-> <<"f", "e", "d", "o", "r", "a">>,
     ver_map |->
       <<[k |-> <<"2", "5">>, img |-> "fedora:25"],
         [k |-> <<"2", "6">>, img |-> "fedora:26"],
         [k |-> <<"2", "7">>, img |-> "fedora:27"],
         [k |-> <<"2", "8">>, img |-> "fedora:28"],
         [k |-> <<"2", "9">>, img |-> "fedora:29"],
         [k |-> <<"3", "0">>, img |-> "fedora:30"],
         [k |-> <<"3", "1">>, img |-> "fedora:31"],
         [k |-> <<"3", "5">>, img |-> "fedora:35"]>>],
    [distro |-> <<"o", "p", "e", "n", "s", "u", "s", "e", " ", "l", "e", "a", "p">>,
     ver_map |->
       <<[k |-> <<"1", "5">>, img |-> "opensuse/leap:15"]>>],
    [distro |-> <<"o", "p", "e", "n", "s", "u", "s", "e", " ", "t", "u", "m", "b", "l", "e", "w", "e", "e", "d">>,
     ver_map |->
       <<[k |-> <<>>, img |-> "opensuse/tumbleweed"]>>],
    [distro |-> <<"l", "i", "n", "u", "x">>,
     ver_map |->
       <<[k |-> <<>>, img |-> "ubuntu:latest"]>>]>>

windows_map ==
  <<[k |-> <<"x", "p">>, img |-> "legacy-windows/xp:latest"],
    [k |-> <<"v", "i", "s", "t", "a">>, img |-> "legacy-windows/vista:latest"],
    [k |-> <<"7">>, img |-> "legacy-windows/win7:latest"],
    [k |-> <<"2", "0", "0", "8">>, img |-> "legacy-windows/win2008:latest"],
    [k |-> <<"2", "0", "1", "2">>, img |-> "legacy-windows/win2012:latest"],
    [k |-> <<"1", "0">>, img |-> "mcr.microsoft.com/windows/nanoserver:1809"],
    [k |-> <<"2", "0", "1", "6">>, img |-> "mcr.microsoft.com/windows/servercore:2016"],
    [k |-> <<"2", "0", "1", "9">>, img |-> "mcr.microsoft.com/windows/servercore:ltsc2019"],
    [k |-> <<"2", "0", "2", "2">>, img |-> "mcr.microsoft.com/windows/servercore:ltsc2022"]>>

Bsd == <<"b", "s", "d">>
Nix == <<"n", "i", "x">>
Dot == "."
Quote == "\""

\* version.split(".")[0]
RECURSIVE SplitDot0(_)
SplitDot0(s) ==
  IF s = <<>> \/ Head(s) = Dot THEN <<>>
  ELSE <<Head(s)>> \o SplitDot0(Tail(s))

\* key in m, and m[key]
HasKey(m, key) == \E j \in 1..Len(m) : m[j].k = key
Get(m, key) == m[CHOOSE j \in 1..Len(m) : m[j].k = key].img

\* a loop that keeps the last entry that matched instead of returning at
\* the first
FirstHit_KeepsLast(hits) == CHOOSE j \in hits : \A l \in hits : l <= j

\* the first of a non-empty set of positions of a dictionary: the entry
\* at which the for loop returns
FirstHit(hits) == CHOOSE j \in hits : \A l \in hits : j <= l

map_os_to_docker_image(name, ver) ==
  IF name = Bsd THEN "alpine:latest"
  ELSE IF name = Nix THEN "alpine:latest"
  ELSE IF name = Windows
  THEN LET hits == {j \in 1..Len(windows_map) : In(windows_map[j].k, ver)}
       IN IF hits # {}
          THEN windows_map[FirstHit(hits)].img
          ELSE "mcr.microsoft.com/windows/servercore:ltsc2019"
  ELSE LET hits == {j \in 1..Len(linux_map) : In(linux_map[j].distro, name)}
       IN
       IF hits # {}
       THEN LET ver_map == linux_map[FirstHit(hits)].ver_map
                short_ver == IF ver # <<>> THEN SplitDot0(ver) ELSE <<>>
            IN IF HasKey(ver_map, short_ver) THEN Get(ver_map, short_ver)
               ELSE IF HasKey(ver_map, <<>>) THEN Get(ver_map, <<>>)
               ELSE "ubuntu:latest"
       ELSE "ubuntu:latest"

\* value.strip('"')
RECURSIVE LStrip(_)
LStrip(s) == IF s # <<>> /\ Head(s) = Quote THEN LStrip(Tail(s)) ELSE s

RECURSIVE RStrip(_)
RStrip(s) ==
  IF s # <<>> /\ s[Len(s)] = Quote THEN RStrip(SubSeq(s, 1, Len(s) - 1))
  ELSE s

Strip(s) == RStrip(LStrip(s))

\* os_info.get(key, default) after `os_info[key.lower()] =
\* value.strip('"').lower()`, without the lower()
OsInfo_NoLower(has, value, default) ==
  IF has THEN Strip(value) ELSE default

\* os_info.get(key, default) after `os_info[key.lower()] =
\* value.strip('"').lower()`
OsInfo(has, value, default) ==
  IF has THEN Lower(Strip(value)) ELSE default

\* detect_os() on host h, as the pair <<os_name, version>>
detect_os(h) ==
  LET sys == Lower(h.system) IN
  IF StartsWith(sys, Linux)
  THEN IF h.readable
       THEN <<OsInfo(h.has_name, h.name, Linux),
              OsInfo(h.has_version, h.version_id, <<>>)>>
       ELSE <<Linux, <<>>>>
  ELSE IF \/ StartsWith(sys, FreeBSD)
          \/ StartsWith(sys, <<"o", "p", "e", "n", "b", "s", "d">>)
          \/ StartsWith(sys, <<"n", "e", "t", "b", "s", "d">>)
  THEN <<Bsd, <<>>>>
  ELSE IF In(Nix, sys) THEN <<Nix, <<>>>>
  ELSE IF sys = Windows THEN <<Windows, Lower(h.release)>>
  ELSE <<sys, <<>>>>

\* s.upper(), to write a value in capitals
UpperChar(c) ==
  IF \E k \in 1..Len(LowerCase) : LowerCase[k] = c
  THEN UpperCase[CHOOSE k \in 1..Len(LowerCase) : LowerCase[k] = c]
  ELSE c

Upper(s) == [k \in 1..Len(s) |-> UpperChar(s[k])]

\* a value as shipped, in lower case and in capitals
Variants(s) == {s, Lower(s), Upper(s)}

\* NAME= values of /etc/os-release, as they stand in the file
OsReleaseNames ==
  UNION {Variants(s) : s \in
  {<<"\"", "U", "b", "u", "n", "t", "u", "\"">>,
   <<"\"", "D", "e", "b", "i", "a", "n", " ", "G", "N", "U", "/", "L", "i", "n", "u", "x", "\"">>,
   <<"\"", "C", "e", "n", "t", "O", "S", " ", "L", "i", "n", "u", "x", "\"">>,
   <<"F", "e", "d", "o", "r", "a">>,
   <<"\"", "o", "p", "e", "n", "S", "U", "S", "E", " ", "L", "e", "a", "p", "\"">>,
   <<"\"", "A", "r", "c", "h", " ", "L", "i", "n", "u", "x", "\"">>}}

\* VERSION_ID= values of /etc/os-release, as they stand in the file
OsReleaseVersions ==
  {<<"\"", "2", "0", ".", "0", "4", "\"">>,
   <<"\"", "1", "2", "\"">>,
   <<"7">>,
   <<"\"", "1", "5", ".", "5", "\"">>,
   <<"\"", "9", "9", "\"">>}

\* values of platform.release() on Windows
WindowsReleases ==
  {<<"1", "0">>,
   <<"7">>,
   <<"X", "P">>,
   <<"V", "i", "s", "t", "a">>,
   <<"2", "0", "1", "9", "S", "e", "r", "v", "e", "r">>,
   <<"2", "0", "1", "2", "S", "e", "r", "v", "e", "r", "R", "2">>,
   <<"8", ".", "1">>,
   <<"1", "1">>}

\* values of platform.system() elsewhere
OtherSystems ==
  {<<"F", "r", "e", "e", "B", "S", "D">>,
   <<"O", "p", "e", "n", "B", "S", "D">>,
   <<"D", "a", "r", "w", "i", "n">>,
   <<"S", "u", "n", "O", "S">>,
   <<"M", "i", "n", "i", "x">>}

LinuxHost(readable, has_name, name, has_version, version_id) ==
  [system |-> <<"L", "i", "n", "u", "x">>, release |-> <<>>, readable |-> readable,
   has_name |-> has_name, name |-> name,
   has_version |-> has_version, version_id |-> version_id]

OtherHost(system, release) ==
  [system |-> system, release |-> release, readable |-> FALSE,
   has_name |-> FALSE, name |-> <<>>,
   has_version |-> FALSE, version_id |-> <<>>]

\* the hosts the script is run on
Hosts ==
  {LinuxHost(TRUE, TRUE, n, TRUE, v) :
     n \in OsReleaseNames, v \in OsReleaseVersions}
  \cup {LinuxHost(TRUE, TRUE, n, FALSE, <<>>) : n \in OsReleaseNames}
  \cup {LinuxHost(TRUE, FALSE, <<>>, TRUE, v) : v \in OsReleaseVersions}
  \cup {LinuxHost(FALSE, FALSE, <<>>, FALSE, <<>>)}
  \cup {OtherHost(s, r) : s \in Variants(<<"W", "i", "n", "d", "o", "w", "s">>),
                          r \in WindowsReleases}
  \cup {OtherHost(s, <<>>) : s \in OtherSystems}

\* the same host with every value written in lower case
LowerHost(h) ==
  [h EXCEPT !.system = Lower(h.system), !.release = Lower(h.release),
            !.name = Lower(h.name), !.version_id = Lower(h.version_id)]

\* os_name values map_os_to_docker_image is called with
FamilyInputs ==
  {<<"c", "e", "n", "t", "o", "s">>,
   <<"u", "b", "u", "n", "t", "u">>,
   <<"d", "e", "b", "i", "a", "n">>,
   <<"f", "e", "d", "o", "r", "a">>,
   <<"o", "p", "e", "n", "s", "u", "s", "e", " ", "l", "e", "a", "p">>,
   <<"o", "p", "e", "n", "s", "u", "s", "e", " ", "t", "u", "m", "b", "l", "e", "w", "e", "e", "d">>,
   <<"l", "i", "n", "u", "x">>,
   <<"w", "i", "n", "d", "o", "w", "s">>,
   <<"b", "s", "d">>,
   <<"n", "i", "x">>,
   <<"u", "n", "k", "n", "o", "w", "n", "f", "a", "m", "i", "l", "y">>,
   <<"d", "a", "r", "w", "i", "n">>}

\* version values map_os_to_docker_image is called with
VersionInputs ==
  {<<>>,
   <<"2", "0", ".", "0", "4">>,
   <<"2", "0">>,
   <<"9", "9">>,
   <<"7">>,
   <<"1", "0">>,
   <<"1", "0", ".", "0", ".", "1", "7", "7", "6", "3">>,
   <<"1", "7">>,
   <<"2", "0", "1", "9">>,
   <<"1", "5", ".", "3">>,
   <<"x", "p">>,
   <<"1">>}

\* no call of restore_container_from_snapshot yet
NoArgs == [snapshot_tar |-> <<>>, container_name |-> ""]

NoCmd == [name |-> "", readonly |-> FALSE, user |-> "", image |-> <<>>]

NoLaunch == [load |-> "skip", run |-> "skip", cmd |-> NoCmd]

\* snapshot paths the user enters
SnapshotPaths ==
  {<<"/", "b", "a", "c", "k", "u", "p", "/", "w", "e", "b", "1", ".", "t", "a", "r">>,
   <<"s", "n", "a", "p", "s", "/", "d", "b", "1", ".", "v", "2", ".", "t", "a", "r">>,
   <<"w", "a", "f", "1">>}

Slash == "/"

\* the largest index of character c in s, 0 when there is none
LastIndex(s, c) ==
  IF \E k \in 1..Len(s) : s[k] = c
  THEN CHOOSE k \in 1..Len(s) :
         s[k] = c /\ \A l \in (k + 1)..Len(s) : s[l] # c
  ELSE 0

\* os.path.basename(p)
basename(p) == SubSeq(p, LastIndex(p, Slash) + 1, Len(p))

\* os.path.splitext(b)[0] for a name b without a directory: the extension
\* starts at the last dot, unless only dots come before it
splitext0(b) ==
  LET d == LastIndex(b, Dot) IN
  IF d > 0 /\ \E k \in 1..(d - 1) : b[k] # Dot
  THEN SubSeq(b, 1, d - 1)
  ELSE b

\* a `docker run` that always takes the general identity
docker_run_AlwaysNobody(h, snapshot_tar, container_name) ==
  [name |-> container_name,
   readonly |-> TRUE,
   user |-> "nobody",
   image |-> splitext0(basename(snapshot_tar))]

\* the command line `docker run -d --read-only --user user --name
\* container_name image_name` of restore_container_from_snapshot
docker_run(h, snapshot_tar, container_name) ==
  [name |-> container_name,
   readonly |-> TRUE,
   user |-> IF detect_os(h)[1] = Windows THEN "nonroot" ELSE "nobody",
   image |-> splitext0(basename(snapshot_tar))]

\* no resolver call and no restore yet
PlatformFresh ==
  /\ os_name = <<>>
  /\ version = <<>>
  /\ image = "none"
  /\ rargs = NoArgs
  /\ launched = NoLaunch
  /\ ppc = "start"

\* the Linux host supervision and the bootstrap are followed on
PlatformIdle ==
  /\ host = LinuxHost(FALSE, FALSE, <<>>, FALSE, <<>>)
  /\ PlatformFresh

\* option_pull_container_to_match_os: detect_os(), then
\* map_os_to_docker_image on what it returned
PullMatching ==
  /\ ppc = "start"
  /\ os_name' = detect_os(host)[1]
  /\ version' = detect_os(host)[2]
  /\ image' = map_os_to_docker_image(detect_os(host)[1], detect_os(host)[2])
  /\ ppc' = "mapped"
  /\ UNCHANGED <<host, rargs, launched>>
  /\ UNCHANGED <<vars, bvars>>

\* a restore that asks the resolver, and on a Windows host launches from
\* the file name with its extension
Restore_AsksResolver ==
  /\ rargs = NoArgs
  /\ \E snapshot_tar \in SnapshotPaths, container_name \in Names,
        o \in RestoreOutcomes :
       /\ rargs' = [snapshot_tar |-> snapshot_tar,
                    container_name |-> container_name]
       /\ launched' =
            [load |-> o.load, run |-> o.run,
             cmd |-> IF o.load = "ok"
                     THEN [docker_run(host, snapshot_tar, container_name)
                             EXCEPT !.image =
                               IF detect_os(host)[1] = Windows
                               THEN basename(snapshot_tar) ELSE @]
                     ELSE NoCmd]
  /\ os_name' = detect_os(host)[1]
  /\ version' = detect_os(host)[2]
  /\ image' = map_os_to_docker_image(detect_os(host)[1], detect_os(host)[2])
  /\ UNCHANGED <<host, ppc>>
  /\ UNCHANGED <<vars, bvars>>

\* restore_container_from_snapshot(snapshot_tar, container_name): the run
\* is issued only when the load did not raise
Restore ==
  /\ rargs = NoArgs
  /\ \E snapshot_tar \in SnapshotPaths, container_name \in Names,
        o \in RestoreOutcomes :
       /\ rargs' = [snapshot_tar |-> snapshot_tar,
                    container_name |-> container_name]
       /\ launched' =
            [load |-> o.load, run |-> o.run,
             cmd |-> IF o.load = "ok"
                     THEN docker_run(host, snapshot_tar, container_name)
                     ELSE NoCmd]
  /\ UNCHANGED <<host, os_name, version, image, ppc>>
  /\ UNCHANGED <<vars, bvars>>

\* a direct call map_os_to_docker_image(os_name, version)
MapOs ==
  /\ ppc = "start"
  /\ image' = map_os_to_docker_image(os_name, version)
  /\ ppc' = "mapped"
  /\ UNCHANGED <<host, os_name, version, rargs, launched>>
  /\ UNCHANGED <<vars, bvars>>

\* the script runs on some host
PlatformInit ==
  /\ SupervisionIdle
  /\ BootReady
  /\ host \in Hosts
  /\ PlatformFresh

PlatformNext ==
  \/ PullMatching
  \/ Restore

PlatformSpec == PlatformInit /\ [][PlatformNext]_pvars

\* the resolver is called with some family name and version
ResolveInit ==
  /\ SupervisionIdle
  /\ BootReady
  /\ host = LinuxHost(FALSE, FALSE, <<>>, FALSE, <<>>)
  /\ os_name \in FamilyInputs
  /\ version \in VersionInputs
  /\ image = "none"
  /\ rargs = NoArgs
  /\ launched = NoLaunch
  /\ ppc = "start"

ResolveNext == MapOs

ResolveSpec == ResolveInit /\ [][ResolveNext]_pvars

(***************************************************************************)
(* Specifications                                                          *)
(***************************************************************************)
Init ==
  /\ SupervisionIdle
  /\ BootReady
  /\ PlatformIdle

Next ==
  \/ MenuSingle /\ UNCHANGED <<bvars, pvars>>
  \/ MenuAll /\ UNCHANGED <<bvars, pvars>>
  \/ SelectContainers /\ UNCHANGED <<bvars, pvars>>
  \/ MenuAllListFails /\ UNCHANGED <<bvars, pvars>>
  \/ \E i \in Loops : Baselining(i) /\ UNCHANGED <<bvars, pvars>>
  \/ \E i \in Loops : ContinuousTick(i) /\ UNCHANGED <<bvars, pvars>>
  \/ \E i \in Loops : MinimalTick(i) /\ UNCHANGED <<bvars, pvars>>
  \/ \E i \in Loops : KeyboardInterrupt(i) /\ UNCHANGED <<bvars, pvars>>
  \/ \E i \in Loops : KeyboardInterruptUncaught(i) /\ UNCHANGED <<bvars, pvars>>
  \/ \E i \in Loops : CallHangs(i) /\ UNCHANGED <<bvars, pvars>>
  \/ \E n \in Names : Mutate(n) /\ UNCHANGED <<bvars, pvars>>
  \/ \E n \in Names : ExternalRemove(n) /\ UNCHANGED <<bvars, pvars>>

Spec == Init /\ [][Next]_vars

\* The program runs on: once a loop function is called it takes its
\* baseline, and a loop that is steady wakes from its sleep and ticks.
\* Nothing is assumed of the user at the menu, of Ctrl-C or of the
\* environment.
FairSpec ==
  /\ Spec
  /\ WF_vars(\E i \in Loops : Baselining(i))
  /\ WF_vars(\E i \in Loops : ContinuousTick(i))
  /\ WF_vars(\E i \in Loops : MinimalTick(i))

\* the script is started with --menu on any platform; the variable may
\* already be in the environment the script is started from
BootInit ==
  /\ SupervisionIdle
  /\ PlatformIdle
  /\ script \in Scripts
  /\ sysname \in Sysnames
  /\ sentinel \in BOOLEAN
  /\ bpc = "menu"
  /\ reexecs = 0
  /\ calls = 0
  /\ last = NoCall

BootNext ==
  \/ CallEnsure
  \/ EnsureEntry
  \/ EnsurePlatform
  \/ EnsureInstall
  \/ fix_docker_group
  \/ execvp
  \/ BackToMenu

BootSpec == BootInit /\ [][BootNext]_bvars

\* The program runs on: a call of ensure_docker_installed goes through its
\* steps.  Nothing is assumed of the user at the menu.
BootFairSpec ==
  /\ BootSpec
  /\ WF_bvars(EnsureEntry)
  /\ WF_bvars(EnsurePlatform)
  /\ WF_bvars(EnsureInstall)
  /\ WF_bvars(fix_docker_group)
  /\ WF_bvars(execvp)

(***************************************************************************)
(* Vocabulary of the properties                                            *)
(***************************************************************************)
\* every index a loop can have
LoopIds == 1..(Len(AllUnits) + MaxTokens)

\* the digest of a complete export of a live unit
Fingerprint(fs) == Hash(HashInit, ExportStream(fs))

\* this step is an iteration of the while loop of loop i
TickOf(i) ==
  /\ pc[i] = "steady"
  /\ ev'[i].n # ev[i].n
  /\ ev'[i].kind \in {"nodrift", "drift"}

\* this tick compares a complete export of the live unit with a baseline
\* that was taken from a complete export, and they differ
GenuineDrift(i) ==
  /\ bhow[i] = "complete"
  /\ ev'[i].how = "complete"
  /\ ev'[i].kind = "drift"

\* the recovery of the tick just taken failed at some step
RecoveryFailed(e) ==
  e.kind = "drift" /\ (e.rm = "fail" \/ e.load = "fail" \/ e.run = "fail")

\* the recovery of the tick just taken removed, loaded and launched
RecoveryOk(e) ==
  e.kind = "drift" /\ e.rm = "ok" /\ e.load = "ok" /\ e.run = "ok"

\* loop i exists and the coordinator is supervising
Selected(i) == cstate = "supervising" /\ i \in Loops

\* the loop function of loop i has been called
Started(i) == i \in Loops /\ pc[i] # "idle"

AllStarted == \A j \in Loops : pc[j] # "idle"

\* loop i gave up at its baseline while supervision goes on
Unmonitorable(i) == Selected(i) /\ pc[i] = "unmonitorable"

\* the menu function returned, caught an error or the process died
SupervisionEnded == cstate \in {"returned", "list_error", "died"}

(***************************************************************************)
(* Properties                                                              *)
(***************************************************************************)
\* C1: with a snapshot configured, a tick that detects drift and whose
\* recovery fails at any step (removal, load or relaunch) leaves the
\* baseline as it was before the tick and the loop in Steady.
C1_StaleBaselineKept ==
  [][\A i \in Loops :
       (TickOf(i) /\ snap[i] /\ GenuineDrift(i) /\ RecoveryFailed(ev'[i]))
         => (baseline'[i] = baseline[i] /\ pc'[i] = "steady")]_vars

\* C2: the baseline of a running loop is always a digest that was computed
\* from a complete export of a unit that was live: never None, never the
\* digest of an export of an absent unit.
C2_BaselineFromLiveUnit ==
  \A i \in Loops :
    pc[i] = "steady" => (baseline[i] # None /\ bhow[i] = "complete")

\* C3: a tick reports "no drift" only when the fingerprint was computed on
\* that tick from a complete export of the live unit and the baseline it
\* equals was computed from a live unit.
C3_NoDriftOnlyWhenComputed ==
  \A i \in Loops :
    (pc[i] = "steady" /\ ev[i].kind = "nodrift")
      => (ev[i].how = "complete" /\ bhow[i] = "complete")

\* C4: a tick whose fingerprint is Unreadable (compute_container_hash
\* returned None) leaves the baseline unchanged and the loop running, is
\* not reported as unchanged, and removes nothing.
C4_UnreadableTickRetried ==
  [][\A i \in Loops :
       (TickOf(i) /\ ev'[i].cur = None)
         => /\ baseline'[i] = baseline[i]
            /\ pc'[i] = "steady"
            /\ ev'[i].kind # "nodrift"
            /\ ev'[i].rm = "skip"
            /\ units' = units]_vars

\* C5: compute_container_hash returns None whenever the export failed (the
\* process could not be started, ended with an error, or the unit does not
\* exist) and a digest only for a complete export.
C5_FailedExportUnreadable ==
  \A i \in Loops :
    ev[i].how \in {"nospawn", "absent", "truncated"} => ev[i].cur = None

\* C6: after a tick that detects drift and whose recovery succeeds, the
\* baseline is the fingerprint of the newly launched unit, and the next
\* tick, the unit being as it was launched, reports no drift and recovers
\* nothing.  (Stated for a drift seen by comparing two complete exports,
\* and for a next tick that follows a completely read re-baseline.)
C6_RecoveryConverges ==
  [][\A i \in Loops :
       /\ (TickOf(i) /\ snap[i] /\ GenuineDrift(i) /\ RecoveryOk(ev'[i]))
            => baseline'[i] = Fingerprint(units'[selected[i]])
       /\ (TickOf(i) /\ snap[i] /\ RecoveryOk(ev[i])
             /\ bhow[i] = "complete"
             /\ units[selected[i]] = SnapshotFs)
            => (ev'[i].kind = "nodrift" /\ units' = units)]_vars

\* C7: when the loop of one selected unit is Unmonitorable, the loop of
\* every other selected unit is eventually started (as long as supervision
\* has not been ended as a whole).
C7_UnmonitorableLeavesOthers ==
  \A i \in LoopIds :
    [](Unmonitorable(i) => <>(AllStarted \/ SupervisionEnded))

\* C8: the loop of every selected unit is eventually started, whether or
\* not the loops of the units selected before it are still running (as
\* long as supervision has not been ended as a whole).
C8_EveryLoopStarted ==
  \A i \in LoopIds :
    [](Selected(i) => <>(Started(i) \/ SupervisionEnded))

\* C9: a failure of the fingerprint or of a recovery step on a tick
\* (the forced removal included) ends neither the loop of that unit nor
\* the supervision of the others.
C9_FailureEndsNothing ==
  [][\A i \in Loops :
       (TickOf(i) /\ (ev'[i].cur = None \/ RecoveryFailed(ev'[i])))
         => (pc'[i] = "steady" /\ cstate' = "supervising")]_vars

\* C10: a tick of the detection-only loop whose hash differs from the
\* baseline adopts that hash as the baseline and reports drift; no tick of
\* this loop removes a unit, loads an artifact or launches a unit.
C10_DetectionOnlyAdopts ==
  [][\A i \in Loops :
       (TickOf(i) /\ ~snap[i])
         => /\ ev'[i].cur # baseline[i]
                => (baseline'[i] = ev'[i].cur /\ ev'[i].kind = "drift")
            /\ ev'[i].rm = "skip"
            /\ ev'[i].load = "skip"
            /\ ev'[i].run = "skip"
            /\ units' = units
            /\ pc'[i] = "steady"]_vars

\* a detection-only loop has just adopted a drifted digest of a live unit
C10_Witness ==
  \E i \in Loops :
    /\ pc[i] = "steady"
    /\ ~snap[i]
    /\ ev[i].kind = "drift"
    /\ ev[i].how = "complete"
    /\ baseline[i] = ev[i].cur

\* C11: a loop whose baseline fingerprint is Unreadable (the hash is None)
\* reports it and ends as Unmonitorable: the step removes and restores
\* nothing, and the loop never sleeps, ticks or recovers afterwards.  A
\* loop that does go on to Steady has a baseline that is not None.
C11_UnreadableBaselineEnds ==
  [][\A i \in Loops :
       /\ (pc[i] = "idle" /\ pc'[i] \notin {"idle", "hung"})
            => \/ /\ pc'[i] = "unmonitorable"
                  /\ ev'[i].kind = "unmonitorable"
                  /\ ev'[i].rm = "skip"
                  /\ ev'[i].load = "skip"
                  /\ ev'[i].run = "skip"
                  /\ units' = units
               \/ /\ pc'[i] = "steady"
                  /\ baseline'[i] # None
                  /\ ev'[i].cur # None
       /\ pc[i] = "unmonitorable"
            => /\ pc'[i] = "unmonitorable"
               /\ ev'[i] = ev[i]
               /\ baseline'[i] = baseline[i]]_vars

\* a loop ended as Unmonitorable at its baseline
C11_Witness ==
  \E i \in Loops :
    pc[i] = "unmonitorable" /\ ev[i].kind = "unmonitorable"

\* the while loop is sleeping or ticking, so Ctrl-C can be taken
AtBoundary(i) == cstate = "supervising" /\ cpos = i /\ pc[i] = "steady"

\* C12: Ctrl-C is taken whenever a loop sleeps or ticks; the step that
\* takes it touches no unit and ends the loop, and a loop that was stopped
\* makes no further fingerprint or recovery call.
C12_StopEndsLoop ==
  /\ [](\A i \in LoopIds :
          (i \in Loops /\ AtBoundary(i)) => ENABLED KeyboardInterrupt(i))
  /\ [][\A i \in Loops :
          /\ (ev'[i].kind = "interrupted" /\ ev[i].kind # "interrupted")
               => (pc'[i] = "interrupted" /\ units' = units)
          /\ pc[i] = "interrupted"
               => /\ pc'[i] = "interrupted"
                  /\ ev'[i] = ev[i]
                  /\ baseline'[i] = baseline[i]]_vars

\* a loop that was supervising has been stopped by Ctrl-C
C12_Witness ==
  \E i \in Loops :
    pc[i] = "interrupted" /\ ev[i].kind = "interrupted"

\* some loop has taken a Ctrl-C
Cancelled == \E i \in Loops : pc[i] = "interrupted"

\* C13: once a cancellation signal was given during multi-target
\* supervision, no loop of any selected unit is started or takes a step.
C13_CancelStopsAll ==
  [][(~single /\ Cancelled) => (pc' = pc /\ ev' = ev)]_vars

\* C20: the load was attempted only after the removal succeeded, and the
\* launch only after the load succeeded.
C20_RemoveLoadLaunch ==
  \A i \in Loops :
    /\ ev[i].load # "skip" => ev[i].rm = "ok"
    /\ ev[i].run # "skip" => ev[i].load = "ok"

\* a recovery removed and loaded, and its launch failed
C20_Witness ==
  \E i \in Loops :
    ev[i].kind = "drift" /\ ev[i].rm = "ok" /\ ev[i].load = "ok"
      /\ ev[i].run = "fail"

\* a call of ensure_docker_installed is under way
InBootstrap == bpc \in {"entry", "platform", "install", "fix", "exec"}

\* the process has ended: sys.exit(1), an uncaught OSError, or sg gave up
BootstrapFailed == bpc \in {"exit1", "traceback", "sgfailed"}

\* C14: over the original process and every process it re-executes into,
\* os.execvp replaces the process at most once, whatever the probes, the
\* installer, usermod and systemctl do; a process that was re-executed has
\* the sentinel set.
C14_ReexecAtMostOnce ==
  /\ reexecs <= 1
  /\ reexecs = 1 => sentinel

\* a re-executed process calls ensure_docker_installed again
C14_Witness == reexecs = 1 /\ sentinel /\ bpc = "entry"

\* C15: in a process whose environment has the sentinel, a call of
\* ensure_docker_installed whose probe fails ends in sys.exit(1); no call
\* in such a process installs, changes group or service, or re-executes.
C15_SentinelFailsFast ==
  /\ [](sentinel => bpc \notin {"platform", "install", "fix"})
  /\ [][(sentinel /\ bpc = "entry")
          => /\ bpc' \in {"ready", "exit1"}
             /\ last'.probe1 = "fail" => bpc' = "exit1"
             /\ last'.install = "skip"
             /\ last'.usermod = "skip"
             /\ last'.service = "skip"
             /\ last'.exec = "skip"
             /\ reexecs' = reexecs]_bvars

\* a process started with the sentinel in its environment has exited at
\* its first failed probe
C15_Witness ==
  /\ sentinel
  /\ reexecs = 0
  /\ bpc = "exit1"
  /\ last = [NoCall EXCEPT !.probe1 = "fail"]

\* C16: every call of ensure_docker_installed ends, in a return, an end of
\* the process or the one re-exec; when the installation succeeds and the
\* probe fails, the process is re-executed once, and the call that follows
\* in the re-executed process exits at its failed probe.
C16_BootstrapTerminates ==
  /\ [](InBootstrap => <>(~InBootstrap))
  /\ [](BootstrapFailed \/ bpc = "ready" => reexecs <= 1)
  /\ [][/\ (bpc = "exec" /\ last'.exec = "ok")
             => (reexecs = 0 /\ reexecs' = 1 /\ bpc' = "menu")
        /\ (bpc = "entry" /\ reexecs = 1 /\ last'.probe1 = "fail")
             => (bpc' = "exit1" /\ reexecs' = 1)]_bvars

\* the second call, made by the re-executed process, has exited at its
\* failed probe
C16_Witness ==
  /\ bpc = "exit1"
  /\ reexecs = 1
  /\ calls = 2
  /\ last = [NoCall EXCEPT !.probe1 = "fail"]

\* the major version of a version string: what stands before its first dot
Major(v) == SplitDot0(v)

\* the declared version table of a family name, empty for an unknown family
FamilyTable(f) ==
  IF f = Windows THEN windows_map
  ELSE IF \E j \in 1..Len(linux_map) : linux_map[j].distro = f
  THEN linux_map[CHOOSE j \in 1..Len(linux_map) :
                   linux_map[j].distro = f].ver_map
  ELSE <<>>

KnownFamily(f) ==
  \/ f \in {Windows, Bsd, Nix}
  \/ \E j \in 1..Len(linux_map) : linux_map[j].distro = f

GlobalDefault == "ubuntu:latest"

\* what a known family falls back to when no version entry applies
FamilyDefault(f) ==
  IF f = Windows THEN "mcr.microsoft.com/windows/servercore:ltsc2019"
  ELSE IF f \in {Bsd, Nix} THEN "alpine:latest"
  ELSE IF HasKey(FamilyTable(f), <<>>) THEN Get(FamilyTable(f), <<>>)
  ELSE GlobalDefault

\* exact (family, major version) entry, else family default, else global
\* default
ByPrecedence(f, v) ==
  IF Major(v) # <<>> /\ HasKey(FamilyTable(f), Major(v))
  THEN Get(FamilyTable(f), Major(v))
  ELSE IF KnownFamily(f) THEN FamilyDefault(f)
  ELSE GlobalDefault

\* C17: map_os_to_docker_image returns the entry of the exact (family,
\* major version) pair when the table has one, else the default of a known
\* family, else the global default, and nothing else.
C17_ExactFamilyGlobal ==
  ppc = "mapped" => image = ByPrecedence(os_name, version)

\* detect_os followed by map_os_to_docker_image on host h
Resolve(h) ==
  map_os_to_docker_image(detect_os(h)[1], detect_os(h)[2])

C19_HardenedLaunch ==
  launched.run # "skip"
    => /\ launched.cmd.name = rargs.container_name
       /\ launched.cmd.readonly
       /\ launched.cmd.user =
            IF Lower(host.system) = Windows THEN "nonroot" ELSE "nobody"

\* a restore launched a unit on a Windows host
C19_Witness ==
  /\ launched.run = "ok"
  /\ Lower(host.system) = Windows
  /\ launched.cmd.user = "nonroot"
  /\ launched.cmd.name = rargs.container_name

\* the file name of an artifact path without its final extension
ArtifactImage(p) == splitext0(basename(p))

\* C21: the image a restore launches from is the file name of the snapshot
\* path without its final extension, on every host, and the restore
\* neither calls map_os_to_docker_image nor uses what it returned.
C21_ImageFromPathOnly ==
  /\ [](launched.load = "ok"
          => launched.cmd.image = ArtifactImage(rargs.snapshot_tar))
  /\ [][rargs' # rargs
          => (os_name' = os_name /\ version' = version
              /\ image' = image /\ ppc' = ppc)]_pvars

\* a restore on a Windows host, before any resolver call, issued a run
\* from an artifact path that has an extension
C21_Witness ==
  /\ launched.load = "ok"
  /\ ppc = "start"
  /\ Lower(host.system) = Windows
  /\ launched.cmd.image # basename(rargs.snapshot_tar)

\* loop i is inside a docker command that does not return
Hung(i) == i \in Loops /\ pc[i] = "hung"

\* C22: a call of a loop that does not return is cut off, so the loop gets
\* out of the call and back to its sleep/tick boundary (or ends).
C22_HangIsBounded ==
  \A i \in LoopIds : [](Hung(i) => <>(~Hung(i)))

\* C23: no two loops that were started are for the same unit name, whatever
\* the user selected, and a step taken while the coordinator is in one loop
\* leaves the baseline of every other loop as it was.
C23_OneLoopPerUnit ==
  /\ [](\A i \in Loops : \A j \in Loops :
          (i # j /\ Started(i) /\ Started(j)) => selected[i] # selected[j])
  /\ [][\A i \in Loops :
          (cstate = "supervising" /\ i # cpos)
            => baseline'[i] = baseline[i]]_vars

\* C24: a tick whose hash equals the baseline reports no drift and changes
\* nothing: the loop stays steady with the same baseline, and no unit is
\* removed, no artifact loaded and no unit launched.
C24_EqualDigestChangesNothing ==
  [][\A i \in Loops :
       (TickOf(i) /\ ev'[i].cur = baseline[i])
         => /\ ev'[i].kind = "nodrift"
            /\ pc'[i] = "steady"
            /\ baseline'[i] = baseline[i]
            /\ ev'[i].rm = "skip"
            /\ ev'[i].load = "skip"
            /\ ev'[i].run = "skip"
            /\ units' = units]_vars

\* a loop with a snapshot has just found the hash of its live unit equal
\* to the baseline
C24_Witness ==
  \E i \in Loops :
    /\ pc[i] = "steady"
    /\ snap[i]
    /\ ev[i].kind = "nodrift"
    /\ ev[i].how = "complete"
    /\ ev[i].cur = baseline[i]

\* C25: a call of ensure_docker_installed without the sentinel whose first
\* probe succeeds returns at once: no installation, no group or service
\* change, no sentinel, no re-exec; so does every later such call.
C25_ReadyChangesNothing ==
  [][(~sentinel /\ bpc = "entry" /\ last'.probe1 = "ok")
       => /\ bpc' = "ready"
          /\ last'.install = "skip"
          /\ last'.groupadd = "skip"
          /\ last'.usermod = "skip"
          /\ last'.service = "skip"
          /\ last'.exec = "skip"
          /\ ~sentinel'
          /\ reexecs' = reexecs]_bvars

\* C26: the process is replaced, or os.execvp is so much as called, only
\* in a call whose installation reported success and whose probe after it
\* failed; a call that ends in sys.exit(1), because the installation
\* failed, the platform has no installer or the sentinel was set, has not
\* called os.execvp.
C26_ReexecOnlyAfterFix ==
  [][/\ (reexecs' # reexecs \/ last'.exec \notin {last.exec, "skip"})
          => /\ bpc = "exec"
             /\ last.install = "ok"
             /\ last.probe2 = "fail"
     /\ (bpc = "install" /\ last'.install = "fail") => bpc' = "exit1"
     /\ (bpc = "platform" /\ ~HasInstaller(script, sysname))
          => bpc' = "exit1"
     /\ bpc' = "exit1" => (reexecs' = reexecs /\ last'.exec = "skip")]_bvars

\* the process has just been replaced, after an installation that
\* succeeded and a probe that failed
C26_Witness ==
  /\ bpc = "menu"
  /\ reexecs = 1
  /\ last.exec = "ok"
  /\ last.install = "ok"
  /\ last.probe2 = "fail"

\* C27: the sentinel, once set, stays set, within the process and in the
\* process that replaces it; os.execvp is called only with the sentinel
\* in os.environ, and a process that was re-executed has it.
C27_SentinelMonotonic ==
  /\ [](reexecs >= 1 => sentinel)
  /\ [][/\ sentinel => sentinel'
        /\ (reexecs' # reexecs \/ last'.exec # last.exec) /\ bpc = "exec"
             => sentinel]_bvars

\* the call that follows a re-exec is on the sentinel path and has probed
C27_Witness ==
  /\ reexecs = 1
  /\ sentinel
  /\ bpc = "ready"
  /\ last.install = "skip"

\* the entries of an answer that name a place in a list of n units
ValidEntries(toks, n) ==
  SelectSeq(toks, LAMBDA t : t.num /\ t.val \in 1..n)

\* the coordinator (menu option 2) has taken the user's answer
Chosen == ~single /\ cstate \in {"supervising", "returned", "died"}

\* C28: the units the coordinator supervises were all listed as running at
\* setup, and the list is what the runtime reported then; 'all' selects
\* the whole list; an index list selects the units at its valid 1-based
\* entries, in the order given, and nothing for the other entries; with
\* no unit running, or nothing valid selected, the coordinator returns
\* with no loop.
C28_SelectionWithinRunning ==
  /\ [](Chosen => \A i \in Loops :
                    \E k \in 1..Len(running) : selected[i] = running[k])
  /\ [][/\ (cstate = "menu" /\ cstate' = "asked")
             => (running' = docker_ps(units) /\ running' # <<>>)
        /\ (cstate = "menu" /\ cstate' = "returned")
             => /\ docker_ps(units) = <<>>
                /\ selected' = <<>>
                /\ pc' = <<>>
        /\ (cstate = "asked" /\ answer.all) => selected' = running
        /\ (cstate = "asked" /\ ~answer.all)
             => LET v == ValidEntries(answer.toks, Len(running)) IN
                selected' = [k \in 1..Len(v) |-> running[v[k].val]]
        /\ cstate = "asked"
             => /\ running' = running
                /\ pc' = [k \in 1..Len(selected') |-> "idle"]
                /\ cstate' = IF selected' = <<>> THEN "returned"
                                                 ELSE "supervising"]_vars

\* two of three running units were selected, the third is not supervised
C28_Witness ==
  /\ Chosen
  /\ cstate = "supervising"
  /\ Len(running) = 3
  /\ selected = <<running[3], running[1]>>
  /\ pc[1] = "steady"

\* C29: a tick of continuous_integrity_check whose load or relaunch failed
\* had removed the drifted unit first, and ends with no unit of that name:
\* the drifted unit is gone and nothing replaces it.  A unit of that name
\* is there after a recovery only when load and relaunch both succeeded,
\* and then it is the snapshot's.
C29_FailedRestoreLeavesNoUnit ==
  [][\A i \in Loops :
       (TickOf(i) /\ snap[i] /\ ev'[i].kind = "drift")
         => /\ (ev'[i].load = "fail" \/ ev'[i].run = "fail")
                 => /\ ev'[i].rm = "ok"
                    /\ units'[selected[i]] = Absent
            /\ (ev'[i].rm = "ok" /\ units'[selected[i]] # Absent)
                 => /\ ev'[i].load = "ok"
                    /\ ev'[i].run = "ok"
                    /\ units'[selected[i]] = SnapshotFs]_vars

\* a unit that was there and had drifted is gone after a tick whose load
\* failed
C29_Witness ==
  \E i \in Loops :
    /\ snap[i]
    /\ pc[i] = "steady"
    /\ ev[i].kind = "drift"
    /\ ev[i].how = "complete"
    /\ ev[i].rm = "ok"
    /\ ev[i].load = "fail"
    /\ units[selected[i]] = Absent

\* the keys of the windows table, in the order they are written
WindowsKeys ==
  <<<<"x", "p">>, <<"v", "i", "s", "t", "a">>, <<"7">>,
    <<"2", "0", "0", "8">>, <<"2", "0", "1", "2">>, <<"1", "0">>,
    <<"2", "0", "1", "6">>, <<"2", "0", "1", "9">>, <<"2", "0", "2", "2">>>>

\* C30: for the windows family the image is that of the first key, in the
\* order xp, vista, 7, 2008, 2012, 10, 2016, 2019, 2022, that occurs
\* anywhere in the version string, and servercore:ltsc2019 when none
\* occurs; an earlier key that occurs wins over a later one that occurs as
\* well.
C30_WindowsFirstKeyWins ==
  /\ [k \in 1..Len(windows_map) |-> windows_map[k].k] = WindowsKeys
  /\ (ppc = "mapped" /\ os_name = Windows)
       => IF \E j \in 1..Len(WindowsKeys) : In(WindowsKeys[j], version)
          THEN \E j \in 1..Len(WindowsKeys) :
                 /\ In(WindowsKeys[j], version)
                 /\ \A l \in 1..(j - 1) : ~In(WindowsKeys[l], version)
                 /\ image = windows_map[j].img
          ELSE image = "mcr.microsoft.com/windows/servercore:ltsc2019"

\* a Windows 10 build number that contains a 7 resolved to the win7 image
C30_Witness ==
  /\ ppc = "mapped"
  /\ os_name = Windows
  /\ version = <<"1", "0", ".", "0", ".", "1", "7", "7", "6", "3">>
  /\ In(<<"1", "0">>, version)
  /\ image = "legacy-windows/win7:latest"

====
